---- MODULE Spec2Model ----
(***************************************************************************)
(* Model of cicd/verdeployed/main.go: one run of main(), which reads a     *)
(* CodePipeline state snapshot, resolves the S3 source revision of every   *)
(* stage (from the Source stage's action for the current execution, from   *)
(* GetPipelineExecution otherwise), looks the revision up with S3          *)
(* HeadObject and writes one row per stage through a tabwriter.            *)
(*                                                                         *)
(* The code dereferences the SDK's pointers without nil checks.  The ones   *)
(* the service leaves nil in practice are modelled with a presence flag:   *)
(* StageState.LatestExecution (a stage that never ran),                    *)
(* ActionState.CurrentRevision (an action without a revision yet) and the  *)
(* "Version" and "Commit" entries of the metadata map.  Dereferencing an   *)
(* absent one is a panic, which runs the deferred w.Flush() and ends the   *)
(* process with exit code 2.  StageName, EntityUrl, RevisionSummary and    *)
(* RevisionId are taken to be always set.  os.Exit(1) ends the process     *)
(* without running deferred calls.                                         *)
(***************************************************************************)
EXTENDS Naturals, Sequences, FiniteSets

\* ------------------------------------------------------------------ bounds
MaxStages == 2
MaxActions == 2
MaxRevisions == 2

\* ------------------------------------------------------------------ inputs
S3ConsoleUrl == "https://console.aws.amazon.com/s3/home?region=us-east-1#"
OtherUrl == "https://console.aws.amazon.com/codesuite/codecommit/repositories/app"
Urls == {S3ConsoleUrl, OtherUrl}

S3Summary == "Amazon S3 version id: x"
OtherSummary == "Merge pull request"

Revs == {"R0", "R1"}
OtherNames == <<"Build", "Deploy", "Test", "Prod">>

\* urlRe.MatchString / revRe.MatchString on the URLs and summaries above.
urlRe(u) == u = S3ConsoleUrl
revRe(s) == s = S3Summary

\* codepipeline.ActionState: EntityUrl, CurrentRevision (nil when hasRev is
\* FALSE) and CurrentRevision.RevisionId. The S3 source action with either
\* revision or none yet, and an action of another provider that has none.
ActionStates ==
    [EntityUrl : {S3ConsoleUrl}, hasRev : {TRUE}, RevisionId : Revs]
    \cup [EntityUrl : Urls, hasRev : {FALSE}, RevisionId : {""}]

RECURSIVE SeqsUpTo(_, _)
SeqsUpTo(S, n) ==
    IF n = 0 THEN {<<>>}
    ELSE LET shorter == SeqsUpTo(S, n - 1)
         IN  shorter \cup {Append(s, x) : s \in shorter, x \in S}

\* codepipeline.StageState.LatestExecution: nil (hasLatest FALSE) for a stage
\* that never ran, else the execution's id and status.
LatestExecutions ==
    { [hasLatest |-> FALSE, PipelineExecutionId |-> "", Status |-> ""],
      [hasLatest |-> TRUE, PipelineExecutionId |-> "E0", Status |-> "Succeeded"],
      [hasLatest |-> TRUE, PipelineExecutionId |-> "E1", Status |-> "Succeeded"],
      [hasLatest |-> TRUE, PipelineExecutionId |-> "E1", Status |-> "InProgress"] }

StageName(n, src, k) ==
    IF k = src THEN "Source" ELSE OtherNames[IF k < src THEN k ELSE k - 1]

ActionLists == SeqsUpTo(ActionStates, MaxActions)

\* A GetPipelineStateOutput.StageStates list of n stages whose stage src is
\* the one named "Source": stage names are unique, and only the Source
\* stage's ActionStates are read by the program.
Snapshot(n, src, lat, acts) ==
    [k \in 1..n |->
        [StageName |-> StageName(n, src, k),
         LatestExecution |-> lat[k],
         ActionStates |-> IF k = src THEN acts ELSE <<>>]]

\* codepipeline.ArtifactRevision lists of a fetched execution.
ArtifactRevisions ==
    [RevisionSummary : {S3Summary}, RevisionId : Revs]
    \cup [RevisionSummary : {OtherSummary}, RevisionId : {"R1"}]
RevisionLists == SeqsUpTo(ArtifactRevisions, MaxRevisions)

\* The S3 object versions: the user metadata stored with each version id.
VersionOf(ver) == IF ver = "R0" THEN "1.0.0" ELSE "2.3.0"
CommitOf(ver) == IF ver = "R0" THEN "abc123" ELSE "def456"

NoMeta == [hasVersion |-> FALSE, Version |-> "", hasCommit |-> FALSE, Commit |-> ""]

\* What svc.HeadObject can answer for a version id: an error, or the
\* object's metadata map, in which "Version" and "Commit" may be absent.
\* S3 rejects an empty versionId query parameter (InvalidArgument).
HeadObject(ver) ==
    {[err |-> TRUE, Metadata |-> NoMeta]}
    \cup (IF ver = "" THEN {}
          ELSE {[err |-> FALSE,
                 Metadata |-> [hasVersion |-> hv,
                               Version |-> IF hv THEN VersionOf(ver) ELSE "",
                               hasCommit |-> hc,
                               Commit |-> IF hc THEN CommitOf(ver) ELSE ""]]
                : hv \in BOOLEAN, hc \in BOOLEAN})

\* ------------------------------------------------------------------- state
VARIABLES
    state,      \* the StageStates GetPipelineState returns
    pc,         \* position of main()
    idx,        \* index of the stage the loop is at
    execId,     \* var execId
    revid,      \* var revid
    details,    \* the stageDetails of the current iteration
    execution,  \* ArtifactRevisions fetched for the current stage, while in scope
    meta,       \* result of getMetadataFromRevision
    wbuf,       \* lines held by the tabwriter, not yet flushed
    stdout,     \* lines that reached os.Stdout
    exitCode,   \* process exit code, once pc is "done", "exit" or "panic"
    fault,      \* the nil dereference that made main() panic
    calls,      \* log of remote calls issued
    records     \* the stageDetails for which a row was written

vars == <<state, pc, idx, execId, revid, details, execution, meta, wbuf,
          stdout, exitCode, fault, calls, records>>

Header1 == <<"Stage", "Status", "Version", "ExecutionID">>
Header2 == <<"----", "----", "----", "----">>

ZeroDetails ==
    [name |-> "", executionId |-> "", status |-> "", revisionId |-> "",
     versionDeployed |-> "", commit |-> ""]

Init ==
    /\ \E n \in 1..MaxStages : \E src \in 1..n :
         \E lat \in [1..n -> LatestExecutions] : \E acts \in ActionLists :
            state = Snapshot(n, src, lat, acts)
    /\ pc = "start"
    /\ idx = 0
    /\ execId = ""
    /\ revid = ""
    /\ details = ZeroDetails
    /\ execution = <<>>
    /\ meta = NoMeta
    /\ wbuf = <<>>
    /\ stdout = <<>>
    /\ exitCode = 0
    /\ fault = ""
    /\ calls = <<>>
    /\ records = <<>>

\* ------------------------------------------------------- process endings
\* Mutant of Exit1: the error path flushes the tabwriter before exiting.
Exit1Flushing(msg) ==
    /\ pc' = "exit"
    /\ exitCode' = 1
    /\ stdout' = Append(stdout \o wbuf, <<msg>>)
    /\ wbuf' = <<>>
    /\ UNCHANGED fault

\* os.Exit(1) after printing msg with fmt.Printf/Println on os.Stdout:
\* deferred calls do not run, so the tabwriter's buffer is never flushed.
Exit1(msg) ==
    /\ pc' = "exit"
    /\ exitCode' = 1
    /\ stdout' = Append(stdout, <<msg>>)
    /\ UNCHANGED <<wbuf, fault>>

\* Mutant of Panic: w.Flush() is not deferred, so a panic skips it.
PanicNoFlush(what) ==
    /\ pc' = "panic"
    /\ exitCode' = 2
    /\ fault' = what
    /\ UNCHANGED <<wbuf, stdout>>

\* A nil pointer dereference panics: the deferred w.Flush() runs, then the
\* runtime ends the process with exit code 2.
Panic(what) ==
    /\ pc' = "panic"
    /\ exitCode' = 2
    /\ fault' = what
    /\ stdout' = stdout \o wbuf
    /\ wbuf' = <<>>

\* ----------------------------------------------------------- main()'s steps
\* pipelnsvc.GetPipelineState and the two header lines.
GetPipelineState ==
    /\ pc = "start"
    /\ \E ok \in BOOLEAN :
        /\ calls' = Append(calls, [op |-> "GetPipelineState", stage |-> 0,
                                   arg |-> "", ok |-> ok])
        /\ IF ok
           THEN /\ pc' = "stage"
                /\ idx' = 1
                /\ wbuf' = wbuf \o <<Header1, Header2>>
                /\ UNCHANGED <<stdout, exitCode, fault>>
           ELSE /\ Exit1("failed to get pipeline state")
                /\ UNCHANGED idx
    /\ UNCHANGED <<state, execId, revid, details, execution, meta, records>>

\* Mutant of FirstMatch: the loop has no break, so the last match stays.
LastMatch(actions) ==
    IF \E k \in 1..Len(actions) : urlRe(actions[k].EntityUrl)
    THEN CHOOSE k \in 1..Len(actions) :
            /\ urlRe(actions[k].EntityUrl)
            /\ \A j \in (k + 1)..Len(actions) : ~urlRe(actions[j].EntityUrl)
    ELSE 0

\* The index of the action the loop over stage.ActionStates stops at
\* (the first whose EntityUrl matches urlRe), 0 when it runs to the end.
FirstMatch(actions) ==
    IF \E k \in 1..Len(actions) : urlRe(actions[k].EntityUrl)
    THEN CHOOSE k \in 1..Len(actions) :
            /\ urlRe(actions[k].EntityUrl)
            /\ \A j \in 1..(k - 1) : ~urlRe(actions[j].EntityUrl)
    ELSE 0

\* if execId == details.executionId
IsCurrent(e, d) == e = d.executionId

\* The Source stage's part of an iteration, then the stageDetails literal
\* and the choice between the current revision and a historical query.
BeginStage ==
    /\ pc = "stage"
    /\ idx <= Len(state)
    /\ LET stage == state[idx]
           isSource == stage.StageName = "Source"
           m == IF isSource THEN FirstMatch(stage.ActionStates) ELSE 0
           revNil == m # 0 /\ ~stage.ActionStates[m].hasRev
           newRevid == IF m # 0 /\ ~revNil
                       THEN stage.ActionStates[m].RevisionId ELSE revid
           latNil == ~stage.LatestExecution.hasLatest
           newExecId == IF isSource /\ ~latNil
                        THEN stage.LatestExecution.PipelineExecutionId
                        ELSE execId
           d == [ZeroDetails EXCEPT
                   !.name = stage.StageName,
                   !.executionId = stage.LatestExecution.PipelineExecutionId,
                   !.status = stage.LatestExecution.Status]
       IN  IF revNil
           THEN /\ Panic("CurrentRevision")
                /\ UNCHANGED <<execId, revid, details>>
           ELSE IF latNil
           THEN /\ Panic("LatestExecution")
                /\ revid' = newRevid
                /\ UNCHANGED <<execId, details>>
           ELSE /\ revid' = newRevid
                /\ execId' = newExecId
                /\ IF IsCurrent(newExecId, d)
                   THEN /\ details' = [d EXCEPT !.revisionId = newRevid]
                        /\ pc' = "meta"
                   ELSE /\ details' = d
                        /\ pc' = "hist"
                /\ UNCHANGED <<wbuf, stdout, exitCode, fault>>
    /\ meta' = NoMeta
    /\ UNCHANGED <<state, idx, execution, calls, records>>

\* Mutant of pipelineExecutionInput: the query is made for var execId.
pipelineExecutionInputCurrent(d) == execId

\* PipelineExecutionId of the GetPipelineExecutionInput.
pipelineExecutionInput(d) == d.executionId

\* Mutant of ScanRevisions: without a match the stage is left with the
\* revision id of the current execution.
ScanRevisionsInherit(revisions, cur) ==
    LET M == {k \in 1..Len(revisions) : revRe(revisions[k].RevisionSummary)}
    IN  IF M = {} THEN revid
        ELSE revisions[CHOOSE m \in M : \A j \in M : j <= m].RevisionId

\* The loop over execution.PipelineExecution.ArtifactRevisions: every
\* revision whose summary matches revRe overwrites details.revisionId.
RECURSIVE ScanRevisions(_, _)
ScanRevisions(revisions, cur) ==
    IF revisions = <<>> THEN cur
    ELSE ScanRevisions(Tail(revisions),
                       IF revRe(Head(revisions).RevisionSummary)
                       THEN Head(revisions).RevisionId ELSE cur)

\* pipelnsvc.GetPipelineExecution for a stage of an earlier execution.
GetPipelineExecution ==
    /\ pc = "hist"
    /\ \E ok \in BOOLEAN :
        /\ calls' = Append(calls, [op |-> "GetPipelineExecution", stage |-> idx,
                                   arg |-> pipelineExecutionInput(details),
                                   ok |-> ok])
        /\ IF ok
           THEN \E revisions \in RevisionLists :
                /\ execution' = revisions
                /\ details' = [details EXCEPT
                      !.revisionId = ScanRevisions(revisions, details.revisionId)]
                /\ pc' = "meta"
                /\ UNCHANGED <<wbuf, stdout, exitCode, fault>>
           ELSE /\ Exit1("GetPipelineExecution error")
                /\ UNCHANGED <<execution, details>>
    /\ UNCHANGED <<state, idx, execId, revid, meta, records>>

\* Mutant of VersionId: an empty revision id is sent as another version.
VersionIdLatest(ver) == IF ver = "" THEN "R1" ELSE ver

\* VersionId of the HeadObjectInput.
VersionId(ver) == ver

\* getMetadataFromRevision(sess, cfg, details.revisionId) and main's check
\* of its error.
getMetadataFromRevision ==
    /\ pc = "meta"
    /\ \E out \in HeadObject(VersionId(details.revisionId)) :
        /\ calls' = Append(calls, [op |-> "HeadObject", stage |-> idx,
                                   arg |-> VersionId(details.revisionId),
                                   ok |-> ~out.err])
        /\ IF out.err
           THEN /\ Exit1("get metadata from file revision: failed to retrieve version metadata")
                /\ UNCHANGED meta
           ELSE /\ meta' = out.Metadata
                /\ pc' = "row"
                /\ UNCHANGED <<wbuf, stdout, exitCode, fault>>
    /\ execution' = <<>>
    /\ UNCHANGED <<state, idx, execId, revid, details, records>>

\* Mutant of Row: the version column shows the revision id.
RowRevision(d) == <<d.name, d.status, d.revisionId, d.executionId>>

\* The line written for a stage.
Row(d) == <<d.name, d.status, d.versionDeployed, d.executionId>>

\* *meta["Version"], *meta["Commit"] and the Fprintf of the stage's row.
\* Every line has several tab-terminated cells, so the tabwriter holds it
\* until Flush.
WriteRow ==
    /\ pc = "row"
    /\ IF ~meta.hasVersion
       THEN /\ Panic("Version")
            /\ UNCHANGED <<details, idx, records>>
       ELSE IF ~meta.hasCommit
       THEN /\ Panic("Commit")
            /\ details' = [details EXCEPT !.versionDeployed = meta.Version]
            /\ UNCHANGED <<idx, records>>
       ELSE LET d == [details EXCEPT !.versionDeployed = meta.Version,
                                     !.commit = meta.Commit]
            IN  /\ details' = d
                /\ wbuf' = Append(wbuf, Row(d))
                /\ records' = Append(records, d)
                /\ idx' = idx + 1
                /\ pc' = "stage"
                /\ UNCHANGED <<stdout, exitCode, fault>>
    /\ UNCHANGED <<state, execId, revid, execution, meta, calls>>

\* main() returns after the last stage: the deferred w.Flush() runs.
Return ==
    /\ pc = "stage"
    /\ idx > Len(state)
    /\ pc' = "done"
    /\ exitCode' = 0
    /\ stdout' = stdout \o wbuf
    /\ wbuf' = <<>>
    /\ UNCHANGED <<state, idx, execId, revid, details, execution, meta,
                   fault, calls, records>>

Next ==
    \/ GetPipelineState
    \/ BeginStage
    \/ GetPipelineExecution
    \/ getMetadataFromRevision
    \/ WriteRow
    \/ Return

Spec == Init /\ [][Next]_vars

\* ================================================================ claims
\* What the claims speak about, read off the snapshot and the call log.
SourceIdx == CHOOSE k \in 1..Len(state) : state[k].StageName = "Source"
SourceActions == state[SourceIdx].ActionStates
HasEpoch == state[SourceIdx].LatestExecution.hasLatest
Epoch == state[SourceIdx].LatestExecution.PipelineExecutionId
HasExec(k) == state[k].LatestExecution.hasLatest
StageExec(k) == state[k].LatestExecution.PipelineExecutionId
CallsOf(op, k) == {j \in 1..Len(calls) : calls[j].op = op /\ calls[j].stage = k}
LastCall == calls[Len(calls)]
LastLine == stdout[Len(stdout)]
MetaErr == <<"get metadata from file revision: failed to retrieve version metadata">>

\* The revision id of the first action whose URL matches, "" when none does.
RECURSIVE ExtractorOutput(_)
ExtractorOutput(actions) ==
    IF actions = <<>> THEN ""
    ELSE IF urlRe(Head(actions).EntityUrl) THEN Head(actions).RevisionId
    ELSE ExtractorOutput(Tail(actions))

MatchingActions == {k \in 1..Len(SourceActions) : urlRe(SourceActions[k].EntityUrl)}
MatchingRevisions == {k \in 1..Len(execution) : revRe(execution[k].RevisionSummary)}

\* The loop is in stage k's iteration with details.revisionId settled.
Settled(k) == idx = k /\ pc \in {"meta", "row"}

\* The Source stage's extraction step has run to its end.
SourceDone ==
    \/ idx > SourceIdx
    \/ /\ idx = SourceIdx
       /\ \/ pc \in {"hist", "meta", "row", "exit"}
          \/ pc = "panic" /\ fault # "CurrentRevision"

\* C1: every stage whose execution id equals the Source stage's, wherever
\* it is listed, gets no GetPipelineExecution call and has the Revision
\* Extractor's output for the Source stage as its revision id.
Claim_C1 ==
    HasEpoch =>
        \A k \in 1..Len(state) :
            (HasExec(k) /\ StageExec(k) = Epoch) =>
                /\ CallsOf("GetPipelineExecution", k) = {}
                /\ Settled(k) => details.revisionId = ExtractorOutput(SourceActions)

\* C2: for every stage whose execution id differs from the Source stage's,
\* exactly one GetPipelineExecution call is issued, for the stage's own
\* execution id, and when the fetched execution has a matching revision the
\* id passed to the metadata lookup is the id of a matching revision of that
\* execution, unchanged.
Thm_C2 ==
    HasEpoch =>
        \A k \in 1..Len(state) :
            (HasExec(k) /\ StageExec(k) # Epoch) =>
                /\ Cardinality(CallsOf("GetPipelineExecution", k)) <= 1
                /\ \A j \in CallsOf("GetPipelineExecution", k) :
                        calls[j].arg = StageExec(k)
                /\ (Settled(k) \/ idx > k) =>
                        Cardinality(CallsOf("GetPipelineExecution", k)) = 1
                /\ (idx = k /\ pc = "meta" /\ MatchingRevisions # {}) =>
                        \E m \in MatchingRevisions :
                            details.revisionId = execution[m].RevisionId
                /\ idx = k =>
                        \A j \in CallsOf("HeadObject", k) :
                            /\ calls[j].arg = details.revisionId
                            /\ CallsOf("GetPipelineExecution", k) # {}

Wit_C2 ==
    /\ pc = "row"
    /\ HasEpoch
    /\ HasExec(idx)
    /\ StageExec(idx) # Epoch
    /\ LastCall.op = "HeadObject"
    /\ LastCall.arg = "R0"

\* C3: the revision id resolved from a fetched execution is that of the
\* first revision, in the order received, whose summary matches.
Claim_C3 ==
    (pc = "meta" /\ MatchingRevisions # {}) =>
        \E m \in MatchingRevisions :
            /\ \A j \in MatchingRevisions : m <= j
            /\ details.revisionId = execution[m].RevisionId

\* C4: once the Source stage's actions are scanned, revid is the revision id
\* of the first action whose EntityUrl matches, and "" when none matches;
\* the scan ends the run only on a first matching action without a current
\* revision, never when no action matches.
Thm_C4 ==
    /\ SourceDone => revid = ExtractorOutput(SourceActions)
    /\ ~SourceDone => revid = ""
    /\ fault = "CurrentRevision" =>
            /\ idx = SourceIdx
            /\ MatchingActions # {}
            /\ \E m \in MatchingActions :
                    /\ \A j \in MatchingActions : m <= j
                    /\ ~SourceActions[m].hasRev

Wit_C4 ==
    /\ SourceDone
    /\ pc = "meta"
    /\ \E m, n \in MatchingActions :
            /\ m < n
            /\ SourceActions[m].hasRev
            /\ SourceActions[n].RevisionId # SourceActions[m].RevisionId
            /\ revid = SourceActions[m].RevisionId

\* C5: when the metadata returned for a stage lacks "Version" or "Commit",
\* the run ends with a reported error and exit code 1, without a row for
\* that stage and without a crash.
MetaIncomplete ==
    /\ calls # <<>>
    /\ LastCall.op = "HeadObject"
    /\ LastCall.ok
    /\ ~(meta.hasVersion /\ meta.hasCommit)

Claim_C5 ==
    (MetaIncomplete /\ pc # "row") =>
        /\ pc = "exit"
        /\ exitCode = 1
        /\ Len(records) < idx

\* The lines the program has written to the tabwriter for the header and
\* the stages it finished.
ReportLines ==
    <<Header1, Header2>> \o
    [k \in 1..Len(records) |->
        <<state[k].StageName, state[k].LatestExecution.Status,
          records[k].versionDeployed, StageExec(k)>>]

\* C6: a failed remote call is the last call of the run and ends it with
\* exit code 1; no call is issued twice for the same stage; and after
\* such an exit no header or stage row has reached the output.
Thm_C6 ==
    /\ \A j \in 1..Len(calls) :
            ~calls[j].ok => (j = Len(calls) /\ pc = "exit" /\ exitCode = 1)
    /\ \A j, n \in 1..Len(calls) :
            (calls[j].op = calls[n].op /\ calls[j].stage = calls[n].stage) => j = n
    /\ pc = "exit" =>
            /\ ~LastCall.ok
            /\ Len(stdout) = 1
            /\ \A n \in 1..Len(stdout) : Len(stdout[n]) = 1

Wit_C6 ==
    /\ pc = "exit"
    /\ idx = 2
    /\ LastCall.op = "GetPipelineExecution"
    /\ Len(records) = 1
    /\ Len(wbuf) = 3

\* C7 as stated: when the run ends on a fatal error in stage k, the header
\* and the rows of stages 1..k-1 are in the output.
Claim_C7 ==
    (pc \in {"exit", "panic"} /\ idx >= 1) =>
        /\ Len(stdout) >= Len(ReportLines)
        /\ \A n \in 1..Len(ReportLines) : stdout[n] = ReportLines[n]

\* C7 amended: the header and the rows of stages 1..k-1 are in the output
\* when the run ends in stage k by a panic; when it ends by os.Exit(1) they
\* are left in the tabwriter and the output holds the error message alone.
Thm_C7 ==
    /\ (pc = "exit" /\ idx >= 1) =>
            /\ Len(records) = idx - 1
            /\ wbuf = ReportLines
            /\ Len(stdout) = 1
            /\ Len(stdout[1]) = 1
    /\ pc = "panic" =>
            /\ Len(records) = idx - 1
            /\ stdout = ReportLines
            /\ wbuf = <<>>

Wit_C7 ==
    /\ pc = "exit"
    /\ idx = 2
    /\ Len(wbuf) = 3
    /\ LastLine = MetaErr

\* C8: a run that returns normally has printed the header and exactly one
\* row per stage of the snapshot, in the snapshot's order, each with the
\* stage's own name, status and execution id and the version stored for
\* the revision id that was looked up for that stage.
Thm_C8 ==
    pc = "done" =>
        /\ exitCode = 0
        /\ Len(records) = Len(state)
        /\ Len(stdout) = Len(state) + 2
        /\ stdout[1] = Header1
        /\ stdout[2] = Header2
        /\ \A k \in 1..Len(state) :
            /\ stdout[k + 2] = <<state[k].StageName, state[k].LatestExecution.Status,
                                 VersionOf(records[k].revisionId), StageExec(k)>>
            /\ Cardinality(CallsOf("HeadObject", k)) = 1
            /\ \A j \in CallsOf("HeadObject", k) :
                    calls[j].arg = records[k].revisionId /\ calls[j].ok

Wit_C8 ==
    /\ pc = "done"
    /\ Len(state) = 2
    /\ records[1].revisionId # records[2].revisionId
    /\ CallsOf("GetPipelineExecution", 2) # {}

Thm_C10 ==
    /\ (pc = "meta" /\ CallsOf("GetPipelineExecution", idx) # {}
            /\ MatchingRevisions = {}) => details.revisionId = ""
    /\ (pc \in {"row", "exit"} /\ LastCall.op = "HeadObject") =>
            LastCall.arg = details.revisionId

Wit_C10 ==
    /\ pc = "meta"
    /\ CallsOf("GetPipelineExecution", idx) # {}
    /\ execution # <<>>
    /\ MatchingRevisions = {}
    /\ revid # ""
    /\ details.revisionId = ""

====
